---------------------------- MODULE Spec2Model ----------------------------
(* A model of spitball.py: the collector (main, handle_output) and the     *)
(* tree builder (parse_tree_clipboard, create_tree_from_clipboard).        *)
(*                                                                         *)
(* Text is modelled as a sequence of characters, each character a          *)
(* one-element token.  The box-drawing connectors of a tree listing are    *)
(* written "TEE" (U+251C), "HBAR" (U+2500), "VBAR" (U+2502) and "ELBOW"    *)
(* (U+2514): the module's character set is ASCII.                          *)
EXTENDS Naturals, Sequences, FiniteSets

VARIABLES
  \* ---- the collector: main()
  pc,                \* where main() is
  patterns,          \* main's argument: the list of glob patterns
  enable_logging,    \* main's argument
  disk,              \* the working directory: file path -> what the file is
  gitignore,         \* the lines of ./.gitignore, or Absent
  has_pathspec,      \* whether "import pathspec" succeeds
  gitignore_patterns,
  matched,           \* the list after glob expansion (line 177)
  files,
  excluded_files,
  md_lines,
  raised,            \* the exception that ended the run, or NoError
  \* ---- handle_output()
  output_file,       \* handle_output's argument, as the caller passed it
  open_file,
  output_path,
  effects,           \* what the run did to the outside world, in order
  \* ---- the tree builder
  tpc,               \* where create_tree_from_clipboard() is
  clipboard,         \* the text xclip -o returns: a list of lines
  dry_run,
  edit,
  entries,
  idx,               \* the loop's position in entries
  stack,
  created_files,
  tree_dirs,         \* the directories on disk
  tree_files,        \* the files on disk
  pre_files,         \* the files on disk when the current call began
  tout,              \* what the current call printed
  steps,             \* per entry of the current call: stack and path at line 148/155
  editor,            \* the editor sessions of the current call: start and exit events
  results            \* what the calls made so far returned

cvars == <<pc, patterns, enable_logging, disk, gitignore, has_pathspec,
           gitignore_patterns, matched, files, excluded_files, md_lines,
           raised, output_file, open_file, output_path, effects>>
tvars == <<tpc, clipboard, dry_run, edit, entries, idx, stack, created_files,
           tree_dirs, tree_files, pre_files, tout, steps, editor, results>>
vars == <<cvars, tvars>>

----------------------------------------------------------------------------
(* Bounds *)

MaxPatterns == 2
MaxLines == 3

----------------------------------------------------------------------------
(* Strings *)

ord(c) ==
  CASE c = " " -> 32 [] c = "!" -> 33 [] c = "#" -> 35 [] c = "*" -> 42
    [] c = "." -> 46 [] c = "/" -> 47
    [] c = "a" -> 97 [] c = "b" -> 98 [] c = "c" -> 99 [] c = "d" -> 100
    [] c = "e" -> 101 [] c = "g" -> 103 [] c = "i" -> 105 [] c = "l" -> 108
    [] c = "m" -> 109 [] c = "o" -> 111 [] c = "p" -> 112 [] c = "s" -> 115
    [] c = "t" -> 116 [] c = "x" -> 120
    [] OTHER -> 9472

RECURSIVE StrLess(_, _)
StrLess(s, t) ==
  IF t = <<>> THEN FALSE
  ELSE IF s = <<>> THEN TRUE
  ELSE IF Head(s) = Head(t) THEN StrLess(Tail(s), Tail(t))
  ELSE ord(Head(s)) < ord(Head(t))

startswith(s, p) == Len(s) >= Len(p) /\ SubSeq(s, 1, Len(p)) = p

endswith(s, p) == Len(s) >= Len(p) /\ SubSeq(s, Len(s) - Len(p) + 1, Len(s)) = p

RECURSIVE lstrip(_)
lstrip(s) == IF s # <<>> /\ Head(s) = " " THEN lstrip(Tail(s)) ELSE s

RECURSIVE rstrip(_)
rstrip(s) ==
  IF s # <<>> /\ s[Len(s)] = " " THEN rstrip(SubSeq(s, 1, Len(s) - 1)) ELSE s

strip(s) == lstrip(rstrip(s))

RECURSIVE count(_, _)
count(s, c) ==
  IF s = <<>> THEN 0 ELSE (IF Head(s) = c THEN 1 ELSE 0) + count(Tail(s), c)

RECURSIVE split(_, _)
split(s, c) ==
  IF \A i \in 1..Len(s) : s[i] # c THEN <<s>>
  ELSE LET i == CHOOSE k \in 1..Len(s) : s[k] = c /\ \A j \in 1..(k - 1) : s[j] # c
       IN <<SubSeq(s, 1, i - 1)>> \o split(SubSeq(s, i + 1, Len(s)), c)

RECURSIVE SelectSeqNonEmpty(_)
SelectSeqNonEmpty(ss) ==
  IF ss = <<>> THEN <<>>
  ELSE (IF Head(ss) = <<>> \/ Head(ss) = <<".">> THEN <<>> ELSE <<Head(ss)>>)
       \o SelectSeqNonEmpty(Tail(ss))

\* Path(path).parts of a relative path: "." and empty components collapse.
parts(path) == SelectSeqNonEmpty(split(path, "/"))

RECURSIVE joinsep(_)
joinsep(ps) ==
  IF ps = <<>> THEN <<>>
  ELSE IF Len(ps) = 1 THEN ps[1]
  ELSE ps[1] \o <<"/">> \o joinsep(Tail(ps))

\* os.path.relpath(file_path) of a path under the working directory.
relpath(path) == IF parts(path) = <<>> THEN <<".">> ELSE joinsep(parts(path))

RECURSIVE SortedSeq(_)
SortedSeq(S) ==
  IF S = {} THEN <<>>
  ELSE LET m == CHOOSE x \in S : \A y \in S \ {x} : StrLess(x, y)
       IN <<m>> \o SortedSeq(S \ {m})

Range(s) == {s[i] : i \in 1..Len(s)}

RECURSIVE SeqsUpTo(_, _)
SeqsUpTo(S, n) ==
  IF n = 0 THEN {<<>>}
  ELSE LET R == SeqsUpTo(S, n - 1)
       IN R \cup {Append(r, x) : r \in {q \in R : Len(q) = n - 1}, x \in S}

None == <<"<None>">>
Absent == <<"<absent>">>
NoError == <<"<no error>">>


----------------------------------------------------------------------------
(* The working directory of the collector *)

FA == <<"a", ".", "t", "x", "t">>
FB == <<"b", ".", "l", "o", "g">>
FG == <<".", "g", "i", "t", "/", "c", ".", "l", "o", "g">>
DotSlash == <<".", "/">>
DotGit == <<".", "g", "i", "t">>
DotTxt == <<".", "t", "x", "t">>

Files == {FA, FB, FG}
Dirs == {DotGit, <<"s">>}

\* What a file is when it is probed: exists is FALSE for a file that glob saw
\* and that is gone by the time of os.path.getsize; readable is FALSE for a
\* file open() refuses; head is the first bytes of the content.
max_size == 100 * 1024
ChunkLen == 1024

Text   == [exists |-> TRUE,  readable |-> TRUE,  size |-> 2, head |-> <<104, 10>>]
Limit  == [exists |-> TRUE,  readable |-> TRUE,  size |-> max_size, head |-> <<104, 10>>]
Big    == [exists |-> TRUE,  readable |-> TRUE,  size |-> max_size + 1, head |-> <<104, 10>>]
Nul    == [exists |-> TRUE,  readable |-> TRUE,  size |-> 2, head |-> <<104, 0>>]
Ctrl   == [exists |-> TRUE,  readable |-> TRUE,  size |-> 1, head |-> <<1>>]
Latin  == [exists |-> TRUE,  readable |-> TRUE,  size |-> 1, head |-> <<200>>]
NoPerm == [exists |-> TRUE,  readable |-> FALSE, size |-> 2, head |-> <<104, 10>>]
Gone   == [exists |-> FALSE, readable |-> FALSE, size |-> 0, head |-> <<>>]

Kinds == {Text, Limit, Big, Nul, Ctrl, Latin, NoPerm, Gone}

\* The working directories explored: a.txt is any kind of file, b.log is a
\* text file that may be gone when it is probed, and the file under .git is
\* binary (and named as the ignore patterns name).
Disks ==
  {d \in [Files -> Kinds] : d[FB] \in {Text, Gone} /\ d[FG] = Nul}

Patterns ==
  {<<"*">>, <<".", "/", "*">>, DotSlash \o FA, <<".", "g", "i", "t", "/", "*">>}

GitignoreFiles ==
  {Absent,
   << <<"#", " ", "l">>, <<>>, <<"*", ".", "l", "o", "g">>, <<" ", "!", "b", ".", "l", "o", "g">> >>,
   << <<"*", ".", "l", "o", "g">> >>}

OutputFiles == {None, <<>>, <<"o">>, <<"o">> \o DotTxt}
TmpName == <<"/", "t", "m", "p", "/", "t">> \o DotTxt

----------------------------------------------------------------------------
(* glob.glob(pattern, recursive=True) and os.path.isfile *)

\* fnmatch of one path component; a leading "*" does not match a hidden name.
fnmatch(name, pat) ==
  IF pat # <<>> /\ Head(pat) = "*"
  THEN name # <<>> /\ Head(name) # "." /\ endswith(name, Tail(pat))
  ELSE name = pat

\* The entries of the working directory the pattern names, each spelled as
\* glob spells it: with the pattern's own "./" in front when it has one.
glob(pattern) ==
  LET pp == parts(pattern)
      hit(e) == LET ep == parts(e)
                IN Len(ep) = Len(pp) /\ \A i \in 1..Len(pp) : fnmatch(ep[i], pp[i])
  IN {(IF startswith(pattern, DotSlash) THEN DotSlash ELSE <<>>) \o e :
        e \in {x \in Files \cup Dirs : hit(x)}}

isfile(path) == relpath(path) \in Files

RECURSIVE glob_all(_)
glob_all(ps) ==
  IF ps = <<>> THEN {}
  ELSE {f \in glob(Head(ps)) : isfile(f)} \cup glob_all(Tail(ps))

----------------------------------------------------------------------------
(* The filters *)

load_gitignore_patterns(content) ==
  IF content = Absent THEN <<>>
  ELSE LET keep(line) == strip(line) # <<>> /\ ~startswith(line, <<"#">>)
           F[i \in 0..Len(content)] ==
             IF i = 0 THEN <<>>
             ELSE IF keep(content[i]) THEN Append(F[i - 1], strip(content[i]))
             ELSE F[i - 1]
       IN F[Len(content)]

is_git_path_Skips(path) == FALSE

is_git_path(path) == DotGit \in Range(parts(path))

getsize_raises(d, path) == ~d[relpath(path)].exists

text_chars == {7, 8, 9, 10, 12, 13, 27} \cup (32..255)

\* The value is_binary_or_large returns when os.path.getsize does not raise.
is_binary_or_large(d, path) ==
  LET f == d[relpath(path)]
  IN IF f.size > max_size THEN TRUE
     ELSE IF ~f.readable THEN TRUE
     ELSE LET n == IF Len(f.head) < ChunkLen THEN Len(f.head) ELSE ChunkLen
              chunk == SubSeq(f.head, 1, n)
          IN \/ 0 \in Range(chunk)
             \/ Range(chunk) \ text_chars # {}

\* pathspec's gitwildmatch for the patterns of GitignoreFiles: a pattern with
\* no "/" is matched against every component of the path, "*" stands for any
\* run of characters, a leading "!" negates, and the last pattern that
\* matches decides.
match_file(pats, path) ==
  LET pp == parts(path)
      neg(p) == p # <<>> /\ Head(p) = "!"
      body(p) == IF neg(p) THEN Tail(p) ELSE p
      one(name, b) == IF b # <<>> /\ Head(b) = "*" THEN endswith(name, Tail(b))
                      ELSE name = b
      hits(p) == \E i \in 1..Len(pp) : one(pp[i], body(p))
      last == {i \in 1..Len(pats) :
                 hits(pats[i]) /\ \A j \in (i + 1)..Len(pats) : ~hits(pats[j])}
  IN \E i \in last : ~neg(pats[i])

\* One filter loop over fs, D the paths its test drops: the paths kept, and
\* the (path, reason) pairs dropped.
kept_All(fs, D) == fs

RECURSIVE kept(_, _)
kept(fs, D) ==
  IF fs = <<>> THEN <<>>
  ELSE (IF Head(fs) \in D THEN <<>> ELSE <<Head(fs)>>) \o kept(Tail(fs), D)

RECURSIVE dropped(_, _, _)
dropped(fs, D, reason) ==
  IF fs = <<>> THEN <<>>
  ELSE (IF Head(fs) \in D THEN << <<Head(fs), reason>> >> ELSE <<>>)
       \o dropped(Tail(fs), D, reason)

\* "if enable_logging: excluded_files.append(...)"
logged(log, ex) == IF log THEN ex ELSE <<>>

----------------------------------------------------------------------------
(* Rendering *)

\* Whether bytes decode as UTF-8 (open(file_path, "r").read()).
RECURSIVE utf8_ok(_)
utf8_ok(bs) ==
  IF bs = <<>> THEN TRUE
  ELSE LET b == Head(bs)
           n == IF b < 128 THEN 0
                ELSE IF b \in 194..223 THEN 1
                ELSE IF b \in 224..239 THEN 2
                ELSE IF b \in 240..244 THEN 3
                ELSE 4
       IN /\ n < 4
          /\ Len(bs) > n
          /\ \A i \in 2..(n + 1) : bs[i] \in 128..191
          /\ utf8_ok(SubSeq(bs, n + 2, Len(bs)))

read_fails(d, path) ==
  LET f == d[relpath(path)]
  IN ~f.exists \/ ~f.readable \/ ~utf8_ok(f.head)

header(path) ==
  [level |-> count(relpath(path), "/") + 1, rel_path |-> relpath(path)]

fenced_SkipsUnreadable(d, path) ==
  IF read_fails(d, path) THEN <<>>
  ELSE <<header(path), [fence |-> "content", of |-> path]>>

\* The two md_lines entries of one file: its header and its fenced block.
fenced(d, path) ==
  <<header(path),
    IF read_fails(d, path) THEN [fence |-> "error", of |-> path]
    ELSE [fence |-> "content", of |-> path]>>

RECURSIVE render(_, _)
render(d, fs) ==
  IF fs = <<>> THEN <<>> ELSE fenced(d, Head(fs)) \o render(d, Tail(fs))

log_file_status(included, excluded) ==
  [i \in 1..Len(included) |-> [op |-> "print", text |-> <<"+", included[i]>>]]
  \o [i \in 1..Len(excluded) |->
        [op |-> "print", text |-> <<"-", excluded[i][1], excluded[i][2]>>]]

say(text) == [op |-> "print", text |-> <<text>>]

----------------------------------------------------------------------------
(* main() *)

Inputs == <<patterns, enable_logging, disk, gitignore, has_pathspec>>
Delivery == <<output_file, open_file, output_path>>

Init ==
  /\ pc = "start"
  /\ patterns \in SeqsUpTo(Patterns, MaxPatterns)
  /\ enable_logging \in BOOLEAN
  /\ disk \in Disks
  /\ gitignore \in GitignoreFiles
  /\ has_pathspec \in BOOLEAN
  /\ gitignore_patterns = <<>>
  /\ matched = <<>>
  /\ files = <<>>
  /\ excluded_files = <<>>
  /\ md_lines = <<>>
  /\ raised = NoError
  /\ output_file = None
  /\ open_file = FALSE
  /\ output_path = None
  /\ effects = <<>>
  /\ tpc = "off"
  /\ clipboard = <<>>
  /\ dry_run = FALSE
  /\ edit = FALSE
  /\ entries = <<>>
  /\ idx = 0
  /\ stack = <<>>
  /\ created_files = <<>>
  /\ tree_dirs = {}
  /\ tree_files = {}
  /\ pre_files = {}
  /\ tout = <<>>
  /\ steps = <<>>
  /\ editor = <<>>
  /\ results = {}

\* Lines 170-180: the ignore patterns, the glob expansion, the sorted set.
Expand ==
  /\ pc = "start"
  /\ gitignore_patterns' = load_gitignore_patterns(gitignore)
  /\ files' = SortedSeq(glob_all(patterns))
  /\ matched' = files'
  /\ excluded_files' = <<>>
  /\ pc' = "git"
  /\ UNCHANGED <<Inputs, Delivery, md_lines, raised, effects, tvars>>

\* Lines 182-190.
FilterGit ==
  /\ pc = "git"
  /\ LET D == {f \in Range(files) : is_git_path(f)}
     IN /\ files' = kept(files, D)
        /\ excluded_files' =
             excluded_files \o logged(enable_logging, dropped(files, D, "git path"))
  /\ pc' = "binary"
  /\ UNCHANGED <<Inputs, Delivery, gitignore_patterns, matched, md_lines, raised,
                 effects, tvars>>

\* Lines 192-200.  os.path.getsize is outside is_binary_or_large's try: its
\* OSError leaves the loop, and main, at the first file it is raised for.
FilterBinary ==
  /\ pc = "binary"
  /\ LET R == {i \in 1..Len(files) : getsize_raises(disk, files[i])}
         D == {f \in Range(files) : is_binary_or_large(disk, f)}
     IN IF R = {}
        THEN /\ files' = kept(files, D)
             /\ excluded_files' =
                  excluded_files
                  \o logged(enable_logging, dropped(files, D, "binary/large"))
             /\ pc' = "ignore"
             /\ raised' = NoError
        ELSE LET k == CHOOSE i \in R : \A j \in R : i <= j
                 done == SubSeq(files, 1, k - 1)
             IN /\ files' = files
                /\ excluded_files' =
                     excluded_files
                     \o logged(enable_logging, dropped(done, D, "binary/large"))
                /\ pc' = "aborted"
                /\ raised' = <<"OSError", "is_binary_or_large", files[k]>>
  /\ UNCHANGED <<Inputs, Delivery, gitignore_patterns, matched, md_lines,
                 effects, tvars>>

\* Lines 202-220.
FilterIgnore ==
  /\ pc = "ignore"
  /\ IF gitignore_patterns = <<>>
     THEN UNCHANGED <<files, excluded_files, effects>>
     ELSE IF has_pathspec
     THEN LET D == {f \in Range(files) : match_file(gitignore_patterns, f)}
          IN /\ files' = kept(files, D)
             /\ excluded_files' =
                  excluded_files
                  \o logged(enable_logging, dropped(files, D, "gitignore"))
             /\ UNCHANGED effects
     ELSE /\ effects' = effects \o <<say("pathspec module not found"),
                                     say("Skipping .gitignore filtering.")>>
          /\ UNCHANGED <<files, excluded_files>>
  /\ pc' = "sort"
  /\ UNCHANGED <<Inputs, Delivery, gitignore_patterns, matched, md_lines, raised,
                 tvars>>

\* Lines 222-225.
SortAndLog ==
  /\ pc = "sort"
  /\ files' = SortedSeq(Range(files))
  /\ effects' = effects \o (IF enable_logging
                            THEN log_file_status(files', excluded_files)
                            ELSE <<>>)
  /\ pc' = "render"
  /\ UNCHANGED <<Inputs, Delivery, gitignore_patterns, matched, excluded_files,
                 md_lines, raised, tvars>>

\* Lines 227-240.
Render ==
  /\ pc = "render"
  /\ md_lines' = render(disk, files)
  /\ pc' = "deliver"
  /\ UNCHANGED <<Inputs, Delivery, gitignore_patterns, matched, files,
                 excluded_files, raised, effects, tvars>>

----------------------------------------------------------------------------
(* handle_output(md_content, output_file, open_file, enable_logging) *)

Filter == <<gitignore_patterns, matched, files, excluded_files, md_lines>>

ensure_txt_Always(name) == name \o DotTxt

\* Lines 78-80.
ensure_txt(name) == IF endswith(name, DotTxt) THEN name ELSE name \o DotTxt

dirname(path) ==
  LET S == {i \in 1..Len(path) : path[i] = "/"}
  IN IF S = {} THEN <<>>
     ELSE SubSeq(path, 1, (CHOOSE i \in S : \A j \in S : j <= i) - 1)

\* Lines 242-247 and 70-85: main hands the document and its own output_file
\* and open_file to handle_output, which picks the destination.
ChooseDestination ==
  /\ pc = "deliver"
  /\ \E of \in OutputFiles, op \in BOOLEAN :
       /\ open_file' = op
       /\ IF of = None
          THEN /\ output_file' = of
               /\ pc' = "xclip"
               /\ UNCHANGED <<output_path, effects, raised>>
          ELSE IF of = <<>>
          THEN /\ output_file' = of
               /\ output_path' = TmpName
               /\ effects' = Append(effects, [op |-> "mkstemp", path |-> TmpName,
                                              data |-> md_lines])
               /\ pc' = "write"
               /\ UNCHANGED raised
          ELSE /\ output_file' = of
               /\ output_path' = ensure_txt(of)
               /\ effects' = Append(effects,
                    [op |-> "makedirs",
                     path |-> IF dirname(output_path') # <<>>
                              THEN dirname(output_path') ELSE <<".">>])
               /\ pc' = "write"
               /\ UNCHANGED raised
  /\ UNCHANGED <<Inputs, Filter, tvars>>

\* Lines 87-92; open() may refuse the path.
WriteFile ==
  /\ pc = "write"
  /\ \E ok \in BOOLEAN :
       IF ok
       THEN /\ effects' = effects
                 \o <<[op |-> "write", path |-> output_path, data |-> md_lines]>>
                 \o (IF enable_logging THEN <<say("Markdown output saved to")>>
                     ELSE <<>>)
            /\ pc' = IF open_file THEN "view" ELSE "done"
            /\ UNCHANGED raised
       ELSE /\ pc' = "aborted"
            /\ raised' = <<"OSError", "handle_output", output_path>>
            /\ UNCHANGED effects
  /\ UNCHANGED <<Inputs, Filter, Delivery, tvars>>

\* Lines 94-96 and 56-65.
OpenViewer ==
  /\ pc = "view"
  /\ effects' = Append(effects, [op |-> "viewer", path |-> output_path])
  /\ pc' = "done"
  /\ UNCHANGED <<Inputs, Filter, Delivery, raised, tvars>>

\* Lines 98-110: xclip copies, fails, or is not installed.
Xclip ==
  /\ pc = "xclip"
  /\ \E outcome \in {"ok", "failed", "missing"} :
       effects' = effects \o
         (CASE outcome = "ok" ->
                 <<[op |-> "xclip", data |-> md_lines, returncode |-> 0]>>
                 \o (IF enable_logging
                     THEN <<say("Markdown output copied to clipboard.")>>
                     ELSE <<>>)
            [] outcome = "failed" ->
                 <<[op |-> "xclip", data |-> md_lines, returncode |-> 1],
                   say("Failed to copy to clipboard.")>>
            [] outcome = "missing" -> <<say("xclip not found")>>)
  /\ pc' = "done"
  /\ UNCHANGED <<Inputs, Filter, Delivery, raised, tvars>>

Next ==
  \/ Expand
  \/ FilterGit
  \/ FilterBinary
  \/ FilterIgnore
  \/ SortAndLog
  \/ Render
  \/ ChooseDestination
  \/ WriteFile
  \/ OpenViewer
  \/ Xclip

Spec == Init /\ [][Next]_vars

----------------------------------------------------------------------------
(* The clipboard of the tree builder *)

Conn == {"TEE", "HBAR", "VBAR", "ELBOW"}

NameD == <<"d">>
NameF == <<"m", ".", "p">>
NameDF == <<"d", "/", "m", ".", "p">>
Names == {NameD, NameF, NameDF}

\* The depths of the generated lines.
Depths == {0, 1}

Rule == <<"VBAR", "HBAR", "HBAR", "ELBOW">>

RECURSIVE Indent(_)
Indent(d) == IF d = 0 THEN <<>> ELSE Rule \o Indent(d - 1)

Line(d, name) == Indent(d) \o <<" ">> \o name

Lines == {Line(d, n) : d \in Depths, n \in Names}

Src == <<"s", "r", "c">>
MainPy == <<"m", "a", "i", "n", ".", "p", "y">>
Utils == <<"u", "t", "i", "l", "s">>
Readme == <<"R", "E", "A", "D", "M", "E", ".", "m", "d">>

\* The listing of section 8 of the specification, as tree prints it.
Example ==
  << <<"TEE", "HBAR", "HBAR", " ">> \o Src,
     <<"VBAR", " ", " ", " ", "TEE", "HBAR", "HBAR", " ">> \o MainPy,
     <<"VBAR", " ", " ", " ", "ELBOW", "HBAR", "HBAR", " ">> \o Utils,
     <<"ELBOW", "HBAR", "HBAR", " ">> \o Readme >>

\* A listing with a blank line, a line of connectors only and trailing blanks.
Ragged ==
  << <<" ", " ">>, <<"TEE", "HBAR", "HBAR", " ">>, NameD \o <<" ">>,
     Rule \o <<"HBAR", " ">> \o NameF >>

\* A listing that goes two levels down and comes back up.
Deep ==
  <<Line(0, NameD), Line(1, NameD), Line(2, NameF), Line(3, NameD), Line(0, NameF)>>

Listings == SeqsUpTo(Lines, MaxLines) \cup {Example, Ragged, Deep}

----------------------------------------------------------------------------
(* parse_tree_clipboard() *)

RECURSIVE prefix_len(_)
prefix_len(ln) ==
  IF ln # <<>> /\ Head(ln) \in Conn THEN 1 + prefix_len(Tail(ln)) ELSE 0

parse_line(ln) ==
  LET n == prefix_len(ln)
      name == strip(SubSeq(ln, n + 1, Len(ln)))
  IN [depth |-> n \div 4, name |-> name, is_dir |-> "." \notin Range(name)]

\* Lines 118-134: blank lines and lines with no name are skipped.
RECURSIVE parse(_)
parse(raw) ==
  IF raw = <<>> THEN <<>>
  ELSE LET ln == rstrip(Head(raw))
       IN (IF strip(Head(raw)) = <<>> \/ parse_line(ln).name = <<>> THEN <<>>
           ELSE <<parse_line(ln)>>)
          \o parse(Tail(raw))

----------------------------------------------------------------------------
(* create_tree_from_clipboard(dry_run, edit) *)

pop_Keeps(st, depth) == st

\* Lines 145-146.
pop(st, depth) == IF Len(st) > depth THEN SubSeq(st, 1, depth) ELSE st

\* posixpath.join(a, b)
join2(a, b) ==
  IF startswith(b, <<"/">>) THEN b
  ELSE IF a = <<>> \/ endswith(a, <<"/">>) THEN a \o b
  ELSE a \o <<"/">> \o b

\* os.path.join(*stack, name)
RECURSIVE path_join(_, _)
path_join(st, name) ==
  IF st = <<>> THEN name
  ELSE IF Len(st) = 1 THEN join2(st[1], name)
  ELSE path_join(<<join2(st[1], st[2])>> \o SubSeq(st, 3, Len(st)), name)

\* The directories above a path, and the path itself, as the disk names them.
chain(path) == {joinsep(SubSeq(parts(path), 1, k)) : k \in 1..Len(parts(path))}

parent(path) == joinsep(SubSeq(parts(path), 1, Len(parts(path)) - 1))

\* os.makedirs(path, exist_ok=True) raises when a file is in the way.
makedirs_raises(fs_files, path) == chain(path) \cap fs_files # {}

\* Path(path).touch() raises when the directory of the path is missing.
touch_raises(fs_dirs, fs_files, path) ==
  /\ relpath(path) \notin fs_dirs \cup fs_files
  /\ Len(parts(path)) > 1
  /\ parent(path) \notin fs_dirs

record_file_NotInDryRun(dry, cf, path) == IF dry THEN cf ELSE Append(cf, path)

\* Line 160.
record_file(dry, cf, path) == Append(cf, path)

Call == <<dry_run, edit, entries, pre_files>>
TreeDisk == <<tree_dirs, tree_files>>

InitTree ==
  /\ pc = "off"
  /\ patterns = <<>>
  /\ enable_logging = FALSE
  /\ disk = [f \in Files |-> Text]
  /\ gitignore = Absent
  /\ has_pathspec = FALSE
  /\ gitignore_patterns = <<>>
  /\ matched = <<>>
  /\ files = <<>>
  /\ excluded_files = <<>>
  /\ md_lines = <<>>
  /\ raised = NoError
  /\ output_file = None
  /\ open_file = FALSE
  /\ output_path = None
  /\ effects = <<>>
  /\ tpc = "idle"
  /\ clipboard \in Listings
  /\ dry_run = FALSE
  /\ edit = FALSE
  /\ entries = <<>>
  /\ idx = 0
  /\ stack = <<>>
  /\ created_files = <<>>
  /\ tree_dirs = {}
  /\ tree_files = {}
  /\ pre_files = {}
  /\ tout = <<>>
  /\ steps = <<>>
  /\ editor = <<>>
  /\ results = {}

Outcome(how) ==
  [dry_run |-> dry_run, how |-> how, returned |-> created_files,
   paths |-> [i \in 1..Len(steps) |-> steps[i].path]]

\* Lines 137-142 and 112-134: one run of the tool in tree mode, on the disk
\* the runs before it left.  Without xclip the run ends in sys.exit.
Begin ==
  /\ tpc \in {"idle", "exited", "raised"}
  /\ \E d \in BOOLEAN, e \in BOOLEAN, xclip \in BOOLEAN :
       /\ dry_run' = d
       /\ edit' = e
       /\ IF xclip
          THEN /\ entries' = parse(clipboard)
               /\ tpc' = "loop"
          ELSE /\ entries' = <<>>
               /\ tpc' = "exited"
  /\ idx' = 1
  /\ stack' = <<>>
  /\ created_files' = <<>>
  /\ pre_files' = tree_files
  /\ tout' = <<>>
  /\ steps' = <<>>
  /\ editor' = <<>>
  /\ UNCHANGED <<clipboard, TreeDisk, results, cvars>>

\* Lines 143-160: one iteration of the loop.
ProcessEntry ==
  /\ tpc = "loop"
  /\ idx <= Len(entries)
  /\ LET e == entries[idx]
         st == pop(stack, e.depth)
         path == path_join(st, e.name)
         step == [depth |-> e.depth, name |-> e.name, is_dir |-> e.is_dir,
                  stack |-> st, path |-> path]
         fails == /\ ~dry_run
                  /\ IF e.is_dir THEN makedirs_raises(tree_files, path)
                     ELSE touch_raises(tree_dirs, tree_files, path)
     IN /\ steps' = Append(steps, step)
        /\ IF fails
           THEN /\ tpc' = "raised"
                /\ stack' = st
                /\ results' = results \cup
                     {[dry_run |-> dry_run, how |-> "raised",
                       returned |-> created_files,
                       paths |-> [i \in 1..Len(steps') |-> steps'[i].path]]}
                /\ UNCHANGED <<idx, created_files, TreeDisk, tout>>
           ELSE /\ tpc' = "loop"
                /\ idx' = idx + 1
                /\ stack' = IF e.is_dir THEN Append(st, e.name) ELSE st
                /\ created_files' =
                     IF e.is_dir THEN created_files
                     ELSE record_file(dry_run, created_files, path)
                /\ tout' = IF dry_run
                           THEN Append(tout, <<IF e.is_dir THEN "mkdir" ELSE "touch", path>>)
                           ELSE tout
                /\ tree_dirs' = IF ~dry_run /\ e.is_dir
                                THEN tree_dirs \cup chain(path) ELSE tree_dirs
                /\ tree_files' =
                     IF ~dry_run /\ ~e.is_dir /\ relpath(path) \notin tree_dirs
                     THEN tree_files \cup {relpath(path)} ELSE tree_files
                /\ UNCHANGED results
  /\ UNCHANGED <<Call, clipboard, editor, cvars>>

\* Lines 161-162: the loop is over.
EndLoop ==
  /\ tpc = "loop"
  /\ idx > Len(entries)
  /\ tpc' = IF edit /\ ~dry_run THEN "edit" ELSE "return"
  /\ idx' = 1
  /\ UNCHANGED <<Call, clipboard, stack, created_files, TreeDisk, tout, steps,
                 editor, results, cvars>>

EditorRuns == editor # <<>> /\ editor[Len(editor)][1] = "start"

\* Line 164: subprocess.call starts the editor on the next recorded file.
EditorStart ==
  /\ tpc = "edit"
  /\ ~EditorRuns
  /\ idx <= Len(created_files)
  /\ editor' = Append(editor, <<"start", created_files[idx]>>)
  /\ UNCHANGED <<tpc, Call, clipboard, idx, stack, created_files, TreeDisk, tout,
                 steps, results, cvars>>

\* Line 164: subprocess.call returns when the editor exits.
EditorExit ==
  /\ tpc = "edit"
  /\ EditorRuns
  /\ editor' = Append(editor, <<"exit", created_files[idx]>>)
  /\ idx' = idx + 1
  /\ UNCHANGED <<tpc, Call, clipboard, stack, created_files, TreeDisk, tout, steps,
                 results, cvars>>

EditDone ==
  /\ tpc = "edit"
  /\ ~EditorRuns
  /\ idx > Len(created_files)
  /\ tpc' = "return"
  /\ UNCHANGED <<Call, clipboard, idx, stack, created_files, TreeDisk, tout, steps,
                 editor, results, cvars>>

\* Line 165.
Return ==
  /\ tpc = "return"
  /\ results' = results \cup {Outcome("returned")}
  /\ tpc' = "idle"
  /\ UNCHANGED <<Call, clipboard, idx, stack, created_files, TreeDisk, tout, steps,
                 editor, cvars>>

NextTree ==
  \/ Begin
  \/ ProcessEntry
  \/ EndLoop
  \/ EditorStart
  \/ EditorExit
  \/ EditDone
  \/ Return

SpecTree == InitTree /\ [][NextTree]_vars

----------------------------------------------------------------------------
(* Claims about the collector *)

InHandleOutput ==
  \/ pc \in {"xclip", "write", "view", "done"}
  \/ pc = "aborted" /\ raised[2] = "handle_output"

FilterDone == pc \in {"sort", "render", "deliver"} \/ InHandleOutput

Rendered == pc = "deliver" \/ InHandleOutput

\* The regular files the patterns match, each as glob spells it.
MatchedRegular ==
  {f \in UNION {glob(patterns[i]) : i \in 1..Len(patterns)} : relpath(f) \in Files}

HasGitSegment(f) == \E i \in 1..Len(parts(f)) : parts(f)[i] = DotGit

IgnoreStageRuns == gitignore # Absent /\ has_pathspec

IgnoreMatched(f) ==
  IgnoreStageRuns /\ match_file(load_gitignore_patterns(gitignore), f)

NoDuplicates(s) == \A i, j \in 1..Len(s) : s[i] = s[j] => i = j

\* C1: once the filters have run, the included list is exactly the matched
\* regular files minus the paths with a .git segment, minus the files
\* is_binary_or_large reports, minus the files the .gitignore patterns match
\* (when .gitignore exists and pathspec can be imported); and from the git
\* stage on no step of main adds a path to the list.
C1_IncludedExactly ==
  /\ [](FilterDone =>
          /\ Range(files) =
               {f \in MatchedRegular :
                  /\ ~HasGitSegment(f)
                  /\ ~is_binary_or_large(disk, f)
                  /\ ~IgnoreMatched(f)}
          /\ NoDuplicates(files))
  /\ [][pc # "start" => Range(files') \subseteq Range(files)]_vars

C1_Witness ==
  /\ pc = "done"
  /\ files # <<>>
  /\ \E f \in Range(matched) : HasGitSegment(f)
  /\ \E f \in Range(matched) : ~HasGitSegment(f) /\ IgnoreMatched(f) /\ f \notin Range(files)

\* The first stage a path fails, in the order git path, binary/large, gitignore.
FirstFailure(f) ==
  IF HasGitSegment(f) THEN "git path"
  ELSE IF is_binary_or_large(disk, f) THEN "binary/large"
  ELSE IF IgnoreMatched(f) THEN "gitignore"
  ELSE "none"

ClassifiedOnce ==
  \A f \in MatchedRegular :
    LET E == {i \in 1..Len(excluded_files) : excluded_files[i][1] = f}
        I == {i \in 1..Len(files) : files[i] = f}
    IN IF FirstFailure(f) = "none"
       THEN Cardinality(I) = 1 /\ E = {}
       ELSE /\ I = {}
            /\ Cardinality(E) = 1
            /\ \A i \in E : excluded_files[i][2] = FirstFailure(f)

ProbeFails(f) == getsize_raises(disk, f) \/ ~disk[relpath(f)].readable

\* C4: a file whose probe fails (the size query, the open or the read) is
\* excluded as "binary/large", and the run goes on: it is not ended by the
\* probe.
C4_ProbeFailureExcludes ==
  /\ ~(pc = "aborted" /\ raised[2] = "is_binary_or_large")
  /\ FilterDone /\ enable_logging =>
       \A f \in MatchedRegular :
         ~HasGitSegment(f) /\ ProbeFails(f)
           => \E i \in 1..Len(excluded_files) :
                excluded_files[i] = <<f, "binary/large">>

Headers == [i \in 1..(Len(md_lines) \div 2) |-> md_lines[2 * i - 1].rel_path]

\* C5: the relative paths of the document's headers are strictly increasing:
\* sorted, and no file twice.
C5_HeadersStrictlyIncreasing ==
  Rendered => \A i, j \in 1..Len(Headers) : i < j => StrLess(Headers[i], Headers[j])

Delivered ==
  \E i \in 1..Len(effects) :
    \/ effects[i].op \in {"write", "xclip"} /\ effects[i].data = md_lines
    \/ effects[i] = say("xclip not found")

\* C6: the document holds one header and one fenced block per included file,
\* in the order of the included list; the block of a file that cannot be
\* read as text holds the error; the run does not end there, and the
\* document is handed to its destination.
C6_OneSegmentPerFile ==
  /\ pc = "aborted" => raised[2] \in {"is_binary_or_large", "handle_output"}
  /\ Rendered =>
       /\ Len(md_lines) = 2 * Len(files)
       /\ \A i \in 1..Len(files) :
            /\ md_lines[2 * i - 1] = header(files[i])
            /\ md_lines[2 * i].of = files[i]
            /\ md_lines[2 * i].fence =
                 (IF read_fails(disk, files[i]) THEN "error" ELSE "content")
  /\ pc = "done" => Delivered

C6_Witness ==
  /\ pc = "done"
  /\ \E i, j \in 1..Len(files) :
       /\ i < j
       /\ md_lines[2 * i].fence = "error"
       /\ md_lines[2 * j].fence = "content"
  /\ \E i \in 1..Len(effects) : effects[i].op = "write" /\ effects[i].data = md_lines

Ops(O) == {i \in 1..Len(effects) : effects[i].op \in O}

\* C8: handle_output uses one destination: the clipboard utility and no file
\* when no destination is given, one temporary file for the empty string, the
\* given path (".txt" appended when it is missing) otherwise; the viewer is
\* launched only with open_file set, only after the file is written and never
\* in clipboard mode; a missing clipboard utility is reported and the call
\* returns.
C8_OneDestination ==
  /\ ~InHandleOutput => Ops({"mkstemp", "makedirs", "write", "xclip", "viewer"}) = {}
  /\ InHandleOutput /\ output_file = None =>
       /\ Ops({"mkstemp", "makedirs", "write", "viewer"}) = {}
       /\ Cardinality(Ops({"xclip"})) <= 1
       /\ pc = "done" =>
            \/ Cardinality(Ops({"xclip"})) = 1
            \/ effects[Len(effects)] = say("xclip not found") /\ raised = NoError
  /\ InHandleOutput /\ output_file = <<>> =>
       /\ Ops({"xclip", "makedirs"}) = {}
       /\ Cardinality(Ops({"mkstemp"})) = 1
       /\ \A i \in Ops({"mkstemp", "write", "viewer"}) : effects[i].path = TmpName
  /\ InHandleOutput /\ output_file \notin {None, <<>>} =>
       /\ Ops({"xclip", "mkstemp"}) = {}
       /\ \A i \in Ops({"write", "viewer"}) :
            /\ effects[i].path =
                 (IF endswith(output_file, DotTxt) THEN output_file
                  ELSE output_file \o DotTxt)
  /\ \A i \in Ops({"viewer"}) :
       /\ open_file
       /\ \E j \in Ops({"write"}) : j < i /\ effects[j].path = effects[i].path
  /\ pc = "done" /\ output_file # None =>
       /\ Cardinality(Ops({"write"})) = 1
       /\ \A i \in Ops({"write"}) : effects[i].data = md_lines

C8_Witness ==
  /\ pc = "done"
  /\ output_file = <<"o">>
  /\ open_file
  /\ md_lines # <<>>
  /\ Ops({"viewer"}) # {}

----------------------------------------------------------------------------
(* Claims about the tree builder *)

RealRunReturned == \E r \in results : ~r.dry_run /\ r.how = "returned"

\* The length of the leading run of connector characters of a line.
LeadingRun(ln) ==
  CHOOSE n \in 0..Len(ln) :
    /\ \A i \in 1..n : ln[i] \in Conn
    /\ n < Len(ln) => ln[n + 1] \notin Conn

\* C3: from the listing of section 8 the tree builder creates the directories
\* src and src/utils and the empty files src/main.py and README.md, and
\* nothing else; each line's depth is its leading run of connectors divided
\* by 4, and its name the rest of the line, trimmed.
C3_ExampleTree ==
  clipboard = Example /\ RealRunReturned =>
    /\ tree_dirs = {Src, Src \o <<"/">> \o Utils}
    /\ tree_files = {Src \o <<"/">> \o MainPy, Readme}
    /\ \A i \in 1..Len(Example) :
         /\ parse(Example)[i].depth = LeadingRun(Example[i]) \div 4
         /\ parse(Example)[i].name =
              strip(SubSeq(Example[i], LeadingRun(Example[i]) + 1, Len(Example[i])))

IsPrefix(a, b) == Len(a) <= Len(b) /\ SubSeq(b, 1, Len(a)) = a

\* C7: a dry run leaves the disk as it is, prints one line per entry, in
\* the order of the entries, and computes for each entry the path, and
\* returns the list of file paths, that a run without dry_run computes and
\* returns on the same clipboard.
C7_DryRunChangesNothing ==
  /\ [][dry_run' => UNCHANGED <<tree_dirs, tree_files>>]_vars
  /\ [](dry_run /\ tpc \in {"loop", "return"} =>
          /\ Len(tout) = Len(steps)
          /\ tpc = "return" => Len(tout) = Len(entries)
          /\ editor = <<>>
          /\ \A i \in 1..Len(tout) :
               /\ steps[i].name = entries[i].name
               /\ tout[i] = <<IF entries[i].is_dir THEN "mkdir" ELSE "touch",
                              steps[i].path>>)
  /\ [](\A d, r \in results :
          d.dry_run /\ d.how = "returned" /\ ~r.dry_run =>
            /\ IsPrefix(r.paths, d.paths)
            /\ r.how = "returned" => r.paths = d.paths /\ r.returned = d.returned)

C7_Witness ==
  \E d, r \in results :
    /\ d.dry_run /\ d.how = "returned"
    /\ ~r.dry_run /\ r.how = "returned"
    /\ Len(d.paths) > Len(d.returned)
    /\ d.returned # <<>>
    /\ tree_files # {}

Started ==
  LET F[i \in 0..Len(editor)] ==
        IF i = 0 THEN <<>>
        ELSE IF editor[i][1] = "start" THEN Append(F[i - 1], editor[i][2])
        ELSE F[i - 1]
  IN F[Len(editor)]

\* The file paths the current run created, in the order it created them.
NewlyCreated ==
  LET F[i \in 0..Len(created_files)] ==
        IF i = 0 THEN <<>>
        ELSE IF relpath(created_files[i]) \in pre_files
                \/ created_files[i] \in Range(F[i - 1])
        THEN F[i - 1]
        ELSE Append(F[i - 1], created_files[i])
  IN F[Len(created_files)]

\* C9: with edit set and dry_run off the editor is started once for each
\* file path the run newly created, in the order of creation, each session
\* after the one before it has ended; with edit off or dry_run on it is
\* never started.
C9_EditorOncePerNewFile ==
  /\ \A i \in 1..Len(editor) :
       editor[i][1] = (IF i % 2 = 1 THEN "start" ELSE "exit")
  /\ dry_run \/ ~edit => editor = <<>>
  /\ IsPrefix(Started, NewlyCreated)
  /\ tpc = "return" /\ edit /\ ~dry_run => Started = NewlyCreated

RECURSIVE IsSubseq(_, _)
IsSubseq(a, b) ==
  IF a = <<>> THEN TRUE
  ELSE IF b = <<>> THEN FALSE
  ELSE IF Head(a) = Head(b) THEN IsSubseq(Tail(a), Tail(b))
  ELSE IsSubseq(a, Tail(b))

DirsBefore(i) ==
  LET F[k \in 0..(i - 1)] ==
        IF k = 0 THEN <<>>
        ELSE IF steps[k].is_dir THEN Append(F[k - 1], steps[k].name)
        ELSE F[k - 1]
  IN F[i - 1]

UnderFile(i) == i > 1 /\ ~steps[i - 1].is_dir /\ steps[i].depth > steps[i - 1].depth

\* The stack when the path of entry i is computed: no longer than the
\* entry's depth, names of directory entries seen before in their order, the
\* path its join with the name, and unchanged from a file to the entry
\* indented under it.
StackAt(i) ==
  /\ steps[i].name = entries[i].name /\ steps[i].depth = entries[i].depth
  /\ Len(steps[i].stack) <= steps[i].depth
  /\ IsSubseq(steps[i].stack, DirsBefore(i))
  /\ steps[i].path = path_join(steps[i].stack, steps[i].name)
  /\ UnderFile(i) => steps[i].stack = steps[i - 1].stack

\* C10, as claimed: when an entry's path is computed the stack is no longer
\* than the entry's depth and holds names of directory entries seen before,
\* in their order; so the path has at most depth + 1 components; a deeper
\* entry goes under the deepest open directory, and an entry indented under
\* a file becomes a sibling of the file.
C10_AsClaimed ==
  \A i \in 1..Len(steps) :
    /\ StackAt(i)
    /\ Len(parts(steps[i].path)) <= steps[i].depth + 1
    /\ UnderFile(i) => parent(steps[i].path) = parent(steps[i - 1].path)

NoSeparator(name) == "/" \notin Range(name)

\* C10, amended: as claimed, but the path is the join of at most depth + 1
\* names, which are at most depth + 1 components when none of them holds a
\* path separator; and an entry indented under a file is joined to the same
\* stack as the file, which makes it a sibling of the file when neither name
\* holds a path separator.
C10_StackInvariant ==
  \A i \in 1..Len(steps) :
    /\ StackAt(i)
    /\ (\A n \in Range(steps[i].stack) \cup {steps[i].name} : NoSeparator(n))
         => Len(parts(steps[i].path)) <= steps[i].depth + 1
    /\ UnderFile(i) /\ NoSeparator(steps[i].name) /\ NoSeparator(steps[i - 1].name)
         => parent(steps[i].path) = parent(steps[i - 1].path)

C10_Witness ==
  /\ tpc = "return"
  /\ ~dry_run
  /\ \E i \in 1..Len(steps) : steps[i].depth > Len(steps[i].stack)
  /\ \E i \in 2..Len(steps) :
       /\ ~steps[i - 1].is_dir /\ steps[i].depth > steps[i - 1].depth
       /\ steps[i].stack # <<>>
  /\ \E i \in 2..Len(steps) : Len(steps[i].stack) + 1 < Len(steps[i - 1].stack)

============================================================================
